---- MODULE Spec2Model ----
(***************************************************************************)
(* Git Smart HTTP server (createGitRouter): ref advertisement, upload-pack *)
(* and receive-pack handlers over one repository's object store and        *)
(* branch map.  Each handler is an async function; one action models the   *)
(* code that runs between two awaits.                                      *)
(***************************************************************************)
EXTENDS Integers, Sequences, FiniteSets, TLC

(* ------------------------------ bounds -------------------------------- *)
\* requests served in one behaviour
MaxRequests == 2
\* ref commands carried by one receive-pack body
MaxCmds == 2
\* want lines / have lines carried by one upload-pack body
MaxWants == 2
MaxHaves == 2

(* ----------------------------- data domain ---------------------------- *)
Null == "null"
\* '0000000000000000000000000000000000000000'
ZeroOid == "0{40}"

\* workers that handle requests; W1 alone serves the sequential specification
W1 == "w1"
Procs == {"w1", "w2"}

Users == {"alice", "bob"}
Actors == Users \cup {Null}

\* the commit chain c0 <- c1 <- c2 with one tree per commit
Commits == {"c0", "c1", "c2"}
Parents(c) == CASE c = "c0" -> {}
                [] c = "c1" -> {"c0"}
                [] c = "c2" -> {"c1"}
                [] OTHER -> {}
TreeOf(c) == CASE c = "c0" -> "t0"
               [] c = "c1" -> "t1"
               [] c = "c2" -> "t2"
               [] OTHER -> Null
Entries(t) == CASE t = "t0" -> {"b0"}
                [] t = "t1" -> {"b0", "b1"}
                [] t = "t2" -> {"b1", "b2"}
                [] OTHER -> {}
AllOids == Commits \cup {"t0", "t1", "t2", "b0", "b1", "b2"}

\* a fixed iteration order of oid collections
OidOrder == <<"c2", "t2", "b2", "c1", "t1", "b1", "c0", "t0", "b0">>

\* ref names as path segments: refs/heads/main is <<"refs", "heads", "main">>
RefMain == <<"refs", "heads", "main">>
RefDev == <<"refs", "heads", "dev">>
RefTag == <<"refs", "tags", "v1">>


(* --------------------------- pure helpers ----------------------------- *)
Range(s) == {s[i] : i \in 1..Len(s)}

RECURSIVE SelectInOrder(_, _)
\* the members of set S listed in the order of sequence ord
SelectInOrder(ord, S) ==
    IF ord = <<>> THEN <<>>
    ELSE (IF Head(ord) \in S THEN <<Head(ord)>> ELSE <<>>) \o SelectInOrder(Tail(ord), S)

\* faulty variant: every name under refs/ is taken for a branch
IsBranchRef_anyRef(refName) == Len(refName) >= 3 /\ refName[1] = "refs"

\* update.refName.startsWith('refs/heads/')
IsBranchRef(refName) ==
    Len(refName) >= 3 /\ SubSeq(refName, 1, 2) = <<"refs", "heads">>

\* faulty variant: every branch command is applied to main
BranchName_alwaysMain(refName) == <<"main">>

\* update.refName.replace('refs/heads/', '')
BranchName(refName) == SubSeq(refName, 3, Len(refName))

\* faulty variant: every command is handed to pushBranch as a create
ExpectedOld_alwaysCreate(oldOid) == Null

\* faulty variant: the zero oid is handed to pushBranch as it came
ExpectedOld_asSent(oldOid) == oldOid

\* update.oldOid === '0000000000000000000000000000000000000000' ? null : update.oldOid
ExpectedOld(oldOid) == IF oldOid = ZeroOid THEN Null ELSE oldOid

(* ---------------------------- object store ---------------------------- *)
\* objects a commit points at directly: its parents, its tree; a tree: its entries
Children(o) == IF o \in Commits THEN Parents(o) \cup {TreeOf(o)} ELSE Entries(o)

RECURSIVE ReachFrom(_, _, _)
\* worklist traversal with a visited set; an oid missing from the store is a dead end
ReachFrom(st, work, visited) ==
    IF work = {} THEN visited
    ELSE LET o == CHOOSE x \in work : TRUE
         IN IF o \in visited \/ o \notin st
            THEN ReachFrom(st, work \ {o}, visited)
            ELSE ReachFrom(st, (work \ {o}) \cup Children(o), visited \cup {o})

getReachableObjects(st, startOid) == ReachFrom(st, {startOid}, {})

RECURSIVE walkCommits(_, _, _)
\* first-parent history of startOid, newest first, at most limit commits
walkCommits(st, startOid, limit) ==
    IF limit = 0 \/ startOid \notin st \/ startOid \notin Commits THEN <<>>
    ELSE <<startOid>> \o
         (IF Parents(startOid) = {} THEN <<>>
          ELSE walkCommits(st, CHOOSE q \in Parents(startOid) : TRUE, limit - 1))

\* objects first introduced by commit c, in pack order
NewObjects(c) == CASE c = "c0" -> <<"c0", "t0", "b0">>
                   [] c = "c1" -> <<"c1", "t1", "b1">>
                   [] c = "c2" -> <<"c2", "t2", "b2">>
                   [] OTHER -> <<>>

(* ---------------------------- ref manager ----------------------------- *)
\* faulty variant: the tip of an existing branch is not compared
CasHolds_anyOld(br, name, expectedOldOid) ==
    name \in DOMAIN br \/ expectedOldOid = Null

\* the compare-and-swap precondition of pushBranch
CasHolds(br, name, expectedOldOid) ==
    IF name \in DOMAIN br THEN br[name].tip = expectedOldOid
    ELSE expectedOldOid = Null

\* the branch map after a successful pushBranch
Pushed(br, name, newOid, pusher, now) ==
    [n \in DOMAIN br \cup {name} |->
        IF n = name THEN [tip |-> newOid, lastPusher |-> pusher, updatedAt |-> now]
        ELSE br[n]]

\* the record of successful pushBranch calls after one more of them
Logged(log, name, expectedOldOid, newOid, pusher) ==
    LET e == [expectedOldOid |-> expectedOldOid, newOid |-> newOid, pusher |-> pusher]
    IN [n \in DOMAIN log \cup {name} |->
           IF n = name THEN (IF n \in DOMAIN log THEN Append(log[n], e) ELSE <<e>>)
           ELSE log[n]]

\* objectStore.walkCommits(update.newOid, 100)
WalkLimit == 100

(* ------------------------------- state -------------------------------- *)
VARIABLES
    branches,     \* ref manager: existing branch name -> [tip, lastPusher, updatedAt]
    store,        \* object store: the oids it holds
    visibility,   \* repo.visibility: 0 public, 1 private
    clock,        \* time source of updatedAt
    served,       \* requests begun so far
    pc,           \* per worker: position in its handler
    req,          \* per worker: endpoint, x-jeju-address header, service parameter
    body,         \* per worker: request body as read by c.req.arrayBuffer()
    updates,      \* per worker: parsed ref commands
    idx,          \* per worker: loop index into updates / wants
    commitCount,  \* per worker: commits.length of the current command
    results,      \* per worker: per-ref results
    needed,       \* per worker: neededOids
    resp,         \* per worker: the response sent
    snap,         \* history: branches and store when the request began
    calls,        \* history: pushBranch calls of the request
    access,       \* history: access-control calls of the request
    unpacked,     \* history: outcome of extractPackfile in the request
    tracked,      \* trackGitContribution calls of the request and how each ended
    pushLog,      \* history: per branch, the pushBranch calls that succeeded, in order
    arg,          \* library operations on their own: the argument an operation is given
    ret           \* library operations on their own: what the operation has produced

repoVars == <<branches, store, visibility, clock, pushLog>>
localVars == <<body, updates, idx, commitCount, results, needed>>
histVars == <<snap, calls, access, unpacked, tracked>>
libVars == <<arg, ret>>
vars == <<branches, store, visibility, clock, served, pc, req, body, updates, idx,
          commitCount, results, needed, resp, snap, calls, access, unpacked, tracked,
          pushLog, arg, ret>>

NoBody == [cmds |-> <<>>, pack |-> [valid |-> FALSE, objs |-> <<>>], lines |-> <<>>]
NoReq == [kind |-> Null, actor |-> Null, service |-> Null]
NoResp == [status |-> 0, lines |-> <<>>, pack |-> <<>>, error |-> Null]

\* the router and the repository before any request
RouterStart ==
    /\ branches = <<>>
    /\ store = {}
    /\ visibility \in {0, 1}
    /\ clock = 0
    /\ served = 0
    /\ pc = [p \in Procs |-> "idle"]
    /\ req = [p \in Procs |-> NoReq]
    /\ body = [p \in Procs |-> NoBody]
    /\ updates = [p \in Procs |-> <<>>]
    /\ idx = [p \in Procs |-> 1]
    /\ commitCount = [p \in Procs |-> 0]
    /\ results = [p \in Procs |-> <<>>]
    /\ needed = [p \in Procs |-> <<>>]
    /\ resp = [p \in Procs |-> NoResp]
    /\ snap = [p \in Procs |-> [branches |-> <<>>, store |-> {}]]
    /\ calls = [p \in Procs |-> <<>>]
    /\ access = [p \in Procs |-> <<>>]
    /\ unpacked = [p \in Procs |-> "no"]
    /\ tracked = [p \in Procs |-> <<>>]
    /\ pushLog = <<>>

Init ==
    /\ RouterStart
    /\ arg = Null /\ ret = Null

(* --------------------------- request framing -------------------------- *)
\* a worker takes a new request: fresh locals, and the history of the request starts
Accept(p, kind, actor, service) ==
    /\ pc[p] \in {"idle", "done"}
    /\ served < MaxRequests
    /\ served' = served + 1
    /\ req' = [req EXCEPT ![p] = [kind |-> kind, actor |-> actor, service |-> service]]
    /\ body' = [body EXCEPT ![p] = NoBody]
    /\ updates' = [updates EXCEPT ![p] = <<>>]
    /\ idx' = [idx EXCEPT ![p] = 1]
    /\ commitCount' = [commitCount EXCEPT ![p] = 0]
    /\ results' = [results EXCEPT ![p] = <<>>]
    /\ needed' = [needed EXCEPT ![p] = <<>>]
    /\ snap' = [snap EXCEPT ![p] = [branches |-> branches, store |-> store]]
    /\ calls' = [calls EXCEPT ![p] = <<>>]
    /\ access' = [access EXCEPT ![p] = <<>>]
    /\ unpacked' = [unpacked EXCEPT ![p] = "no"]
    /\ tracked' = [tracked EXCEPT ![p] = <<>>]

\* the handler returns (or an error escapes it): the response is sent
Reply(p, status, lines, pack, error) ==
    /\ resp' = [resp EXCEPT ![p] = [status |-> status, lines |-> lines,
                                    pack |-> pack, error |-> error]]
    /\ pc' = [pc EXCEPT ![p] = "done"]
    /\ UNCHANGED libVars

\* the handler goes on to its next await; nothing has been sent yet
Goto(p, label) ==
    /\ pc' = [pc EXCEPT ![p] = label]
    /\ resp' = [resp EXCEPT ![p] = NoResp]
    /\ UNCHANGED libVars

(* ------------------------ receive-pack: inputs ------------------------ *)
\* a pkt-line of the command section: '<oldOid> <newOid> <refname>[\0<capabilities>]'
\* (rest is the text after the second oid, split at NUL), or a line the regex rejects
Cmd(oldOid, newOid, refName) ==
    [wellFormed |-> TRUE, oldOid |-> oldOid, newOid |-> newOid, rest |-> <<refName>>]
JunkLine == [wellFormed |-> FALSE, oldOid |-> Null, newOid |-> Null, rest |-> <<>>]

\* the lines one client sends over the history c0 <- c1: create main, fast-forward it,
\* delete it, create a tag, and a malformed line
PushLines ==
    {Cmd(ZeroOid, "c0", RefMain), Cmd("c0", "c1", RefMain), Cmd("c0", ZeroOid, RefMain),
     Cmd(ZeroOid, "c0", RefTag), JunkLine}

\* the client attaches its capabilities to the first line
WithCaps(lines) ==
    [i \in 1..Len(lines) |->
        IF i = 1 /\ lines[i].wellFormed
        THEN [lines[i] EXCEPT !.rest = @ \o <<"report-status">>]
        ELSE lines[i]]

\* packs: the objects of c0, the objects new in c1, and a damaged copy of the latter
Packs ==
    {[valid |-> TRUE, objs |-> NewObjects("c0")], [valid |-> TRUE, objs |-> NewObjects("c1")],
     [valid |-> FALSE, objs |-> NewObjects("c1")]}


(* ----------------------- receive-pack: handler ------------------------ *)
RECURSIVE ParseCommands(_)
\* lines 225-231: keep the lines the regex matches; refName is match[3].split('\0')[0]
ParseCommands(lines) ==
    IF lines = <<>> THEN <<>>
    ELSE (IF Head(lines).wellFormed
          THEN <<[oldOid |-> Head(lines).oldOid, newOid |-> Head(lines).newOid,
                  refName |-> Head(Head(lines).rest)]>>
          ELSE <<>>) \o ParseCommands(Tail(lines))

\* line 265: 'unpack ok' and one status line per accumulated result
ResponseLines(rs) ==
    <<<<"unpack ok">>>> \o
    [i \in 1..Len(rs) |->
        IF rs[i].success THEN <<"ok", rs[i].ref>> ELSE <<"ng", rs[i].ref, rs[i].error>>]

\* lines 204-209: the actor header is read; without it the request ends 401
RpBegin(p) ==
    \E actor \in Actors :
        /\ Accept(p, "receive-pack", actor, Null)
        /\ IF actor = Null THEN Reply(p, 401, <<>>, <<>>, Null) ELSE Goto(p, "rp_repo")
        /\ UNCHANGED repoVars

\* lines 211-212: getRepositoryByName
RpResolve(p) ==
    /\ pc[p] = "rp_repo"
    /\ \E found \in BOOLEAN :
        IF found THEN Goto(p, "rp_access") ELSE Reply(p, 404, <<>>, <<>>, Null)
    /\ UNCHANGED <<repoVars, served, req, localVars, histVars>>

\* faulty variant: the answer of hasWriteAccess is not acted upon
RpAccess_ignore(p) ==
    /\ pc[p] = "rp_access"
    /\ \E granted \in BOOLEAN :
        access' = [access EXCEPT ![p] =
                     Append(@, [op |-> "write", actor |-> req[p].actor, granted |-> granted])]
    /\ Goto(p, "rp_body")
    /\ UNCHANGED <<repoVars, served, req, localVars, snap, calls, unpacked, tracked>>

\* lines 214-215: hasWriteAccess
RpAccess(p) ==
    /\ pc[p] = "rp_access"
    /\ \E granted \in BOOLEAN :
        /\ access' = [access EXCEPT ![p] =
                        Append(@, [op |-> "write", actor |-> req[p].actor, granted |-> granted])]
        /\ IF granted THEN Goto(p, "rp_body") ELSE Reply(p, 403, <<>>, <<>>, Null)
    /\ UNCHANGED <<repoVars, served, req, localVars, snap, calls, unpacked, tracked>>

\* lines 217-233: the body arrives, is split at PACK and its command section is parsed
RpBody(p, lines, maxCmds, packs) ==
    /\ pc[p] = "rp_body"
    /\ \E n \in 0..maxCmds :
        \E ls \in [1..n -> lines], pk \in packs :
            LET b == [cmds |-> WithCaps(ls), pack |-> pk, lines |-> <<>>]
            IN /\ body' = [body EXCEPT ![p] = b]
               /\ updates' = [updates EXCEPT ![p] = ParseCommands(b.cmds)]
    /\ Goto(p, "rp_extract")
    /\ UNCHANGED <<repoVars, served, req, idx, commitCount, results, needed, histVars>>

\* faulty variant: a failed extraction is caught and answered with an empty status report
RpExtract_reportsOk(p) ==
    /\ pc[p] = "rp_extract"
    /\ LET pk == body[p].pack IN
        IF pk.valid
        THEN /\ store' = store \cup Range(pk.objs)
             /\ unpacked' = [unpacked EXCEPT ![p] = "ok"]
             /\ Goto(p, "rp_loop")
        ELSE /\ \E k \in 0..Len(pk.objs) : store' = store \cup Range(SubSeq(pk.objs, 1, k))
             /\ unpacked' = [unpacked EXCEPT ![p] = "failed"]
             /\ Reply(p, 200, ResponseLines(<<>>), <<>>, Null)
    /\ UNCHANGED <<branches, visibility, clock, pushLog, served, req, localVars, snap,
                   calls, access, tracked>>

\* faulty variant: a failed extraction is swallowed and the commands are applied anyway
RpExtract_swallow(p) ==
    /\ pc[p] = "rp_extract"
    /\ LET pk == body[p].pack IN
        /\ \E k \in 0..Len(pk.objs) :
            /\ pk.valid => k = Len(pk.objs)
            /\ store' = store \cup Range(SubSeq(pk.objs, 1, k))
        /\ unpacked' = [unpacked EXCEPT ![p] = IF pk.valid THEN "ok" ELSE "failed"]
        /\ Goto(p, "rp_loop")
    /\ UNCHANGED <<branches, visibility, clock, pushLog, served, req, localVars, snap,
                   calls, access, tracked>>

\* line 234: extractPackfile stores the pack's objects; a corrupt pack raises after
\* storing some prefix of them, and the error escapes the handler
RpExtract(p) ==
    /\ pc[p] = "rp_extract"
    /\ LET pk == body[p].pack IN
        IF pk.valid
        THEN /\ store' = store \cup Range(pk.objs)
             /\ unpacked' = [unpacked EXCEPT ![p] = "ok"]
             /\ Goto(p, "rp_loop")
        ELSE /\ \E k \in 0..Len(pk.objs) : store' = store \cup Range(SubSeq(pk.objs, 1, k))
             /\ unpacked' = [unpacked EXCEPT ![p] = "failed"]
             /\ Reply(p, 500, <<>>, <<>>, "CorruptPackError")
    /\ UNCHANGED <<branches, visibility, clock, pushLog, served, req, localVars, snap,
                   calls, access, tracked>>

\* lines 238-242 and 265-268: next command, or the status report when none is left
RpLoop(p) ==
    /\ pc[p] = "rp_loop"
    /\ IF idx[p] > Len(updates[p])
       THEN /\ Reply(p, 200, ResponseLines(results[p]), <<>>, Null)
            /\ UNCHANGED <<idx, results>>
       ELSE LET update == updates[p][idx[p]] IN
            IF ~IsBranchRef(update.refName)
            THEN /\ results' = [results EXCEPT ![p] =
                                  Append(@, [ref |-> update.refName, success |-> FALSE,
                                             error |-> "Only branch updates supported"])]
                 /\ idx' = [idx EXCEPT ![p] = @ + 1]
                 /\ Goto(p, "rp_loop")
            ELSE /\ Goto(p, "rp_walk")
                 /\ UNCHANGED <<idx, results>>
    /\ UNCHANGED <<repoVars, served, req, body, updates, commitCount, needed, histVars>>

\* line 245: walkCommits(update.newOid, 100)
RpWalk(p) ==
    /\ pc[p] = "rp_walk"
    /\ commitCount' = [commitCount EXCEPT ![p] =
                         Len(walkCommits(store, updates[p][idx[p]].newOid, WalkLimit))]
    /\ Goto(p, "rp_push")
    /\ UNCHANGED <<repoVars, served, req, body, updates, idx, results, needed, histVars>>

\* faulty variant: the contribution is tracked as soon as pushBranch is called
RpPush_tracksFirst(p) ==
    /\ pc[p] = "rp_push"
    /\ LET update == updates[p][idx[p]]
           branchName == BranchName(update.refName)
           expected == ExpectedOld(update.oldOid)
           ok == CasHolds(branches, branchName, expected)
       IN /\ clock' = clock + 1
          /\ calls' = [calls EXCEPT ![p] =
                         Append(@, [branch |-> branchName, oldOid |-> update.oldOid,
                                    newOid |-> update.newOid,
                                    expectedOldOid |-> expected, pusher |-> req[p].actor,
                                    before |-> branches, ok |-> ok,
                                    unpacked |-> unpacked[p]])]
          /\ tracked' = [tracked EXCEPT ![p] =
                           Append(@, [branch |-> branchName,
                                      commitCount |-> commitCount[p],
                                      state |-> "pending"])]
          /\ IF ok
             THEN /\ branches' = Pushed(branches, branchName, update.newOid,
                                        req[p].actor, clock + 1)
                  /\ pushLog' = Logged(pushLog, branchName, expected, update.newOid,
                                       req[p].actor)
                  /\ results' = [results EXCEPT ![p] =
                                   Append(@, [ref |-> update.refName, success |-> TRUE,
                                              error |-> Null])]
                  /\ idx' = [idx EXCEPT ![p] = @ + 1]
                  /\ Goto(p, "rp_loop")
             ELSE /\ Reply(p, 500, <<>>, <<>>, "NonFastForwardOrRaceError")
                  /\ UNCHANGED <<branches, pushLog, results, idx>>
    /\ UNCHANGED <<store, visibility, served, req, body, updates, commitCount, needed,
                   snap, access, unpacked>>

\* lines 247-262: pushBranch; when it resolves the contribution is tracked and the
\* ref is recorded as updated; when it raises the error escapes the handler
RpPush(p) ==
    /\ pc[p] = "rp_push"
    /\ LET update == updates[p][idx[p]]
           branchName == BranchName(update.refName)
           expected == ExpectedOld(update.oldOid)
           ok == CasHolds(branches, branchName, expected)
       IN /\ clock' = clock + 1
          /\ calls' = [calls EXCEPT ![p] =
                         Append(@, [branch |-> branchName, oldOid |-> update.oldOid,
                                    newOid |-> update.newOid,
                                    expectedOldOid |-> expected, pusher |-> req[p].actor,
                                    before |-> branches, ok |-> ok,
                                    unpacked |-> unpacked[p]])]
          /\ IF ok
             THEN /\ branches' = Pushed(branches, branchName, update.newOid,
                                        req[p].actor, clock + 1)
                  /\ pushLog' = Logged(pushLog, branchName, expected, update.newOid,
                                       req[p].actor)
                  /\ tracked' = [tracked EXCEPT ![p] =
                                   Append(@, [branch |-> branchName,
                                              commitCount |-> commitCount[p],
                                              state |-> "pending"])]
                  /\ results' = [results EXCEPT ![p] =
                                   Append(@, [ref |-> update.refName, success |-> TRUE,
                                              error |-> Null])]
                  /\ idx' = [idx EXCEPT ![p] = @ + 1]
                  /\ Goto(p, "rp_loop")
             ELSE /\ Reply(p, 500, <<>>, <<>>, "NonFastForwardOrRaceError")
                  /\ UNCHANGED <<branches, pushLog, tracked, results, idx>>
    /\ UNCHANGED <<store, visibility, served, req, body, updates, commitCount, needed,
                   snap, access, unpacked>>

\* the contribution tracker, off the handler's path: a tracked contribution is
\* recorded or fails
TrackSettle(p) ==
    /\ \E i \in 1..Len(tracked[p]), outcome \in {"recorded", "failed"} :
        /\ tracked[p][i].state = "pending"
        /\ tracked' = [tracked EXCEPT ![p][i].state = outcome]
    /\ UNCHANGED <<repoVars, served, pc, req, localVars, resp, snap, calls, access,
                   unpacked, libVars>>

ReceivePack(p) ==
    \/ RpResolve(p)
    \/ RpAccess(p)
    \/ RpExtract(p)
    \/ RpLoop(p)
    \/ RpWalk(p)
    \/ RpPush(p)

(* ------------------------------ info/refs ----------------------------- *)
Services == {Null, "git-upload-pack", "git-receive-pack", "git-annex"}

\* faulty variant: any service that is present is accepted
ValidService_anyPresent(service) == service # Null

\* line 128: the service parameter is present and one of the two known values
ValidService(service) ==
    service # Null /\ (service = "git-upload-pack" \/ service = "git-receive-pack")

\* faulty variant: reads are never access-checked
ReadCheckRequired_never(vis) == FALSE

\* lines 141 and 160: reads are access-checked when repo.visibility === 1
ReadCheckRequired(vis) == vis = 1

BranchOrder == << <<"dev">>, <<"main">> >>

\* repoManager.getRefs: one GitRef per existing branch
getRefs(br) ==
    LET names == SelectInOrder(BranchOrder, DOMAIN br)
    IN [i \in 1..Len(names) |->
            [oid |-> br[names[i]].tip, name |-> <<"refs", "heads">> \o names[i]]]

\* line 399
Capabilities ==
    <<"report-status", "delete-refs", "side-band-64k", "quiet", "ofs-delta",
      "agent=jeju-git/1.0.0">>

\* faulty variant: every ref line carries the zero oid of the line for no refs
formatInfoRefs_zeroOid(service, refs) ==
    << <<"service", service>>, <<"flush">> >> \o
    (IF Len(refs) = 0
     THEN << <<"ref", ZeroOid, <<"capabilities^{}">>, Capabilities>> >>
     ELSE [i \in 1..Len(refs) |->
             <<"ref", ZeroOid, refs[i].name, IF i = 1 THEN Capabilities ELSE <<>> >>])
    \o << <<"flush">> >>

\* faulty variant: the capabilities follow every ref, not only the first
formatInfoRefs_capsOnAll(service, refs) ==
    << <<"service", service>>, <<"flush">> >> \o
    (IF Len(refs) = 0
     THEN << <<"ref", ZeroOid, <<"capabilities^{}">>, Capabilities>> >>
     ELSE [i \in 1..Len(refs) |-> <<"ref", refs[i].oid, refs[i].name, Capabilities>>])
    \o << <<"flush">> >>

\* faulty variant: the advertisement of a repository without refs, whatever its refs
formatInfoRefs_noRefs(service, refs) ==
    << <<"service", service>>, <<"flush">>,
       <<"ref", ZeroOid, <<"capabilities^{}">>, Capabilities>>, <<"flush">> >>

\* lines 394-412: pkt-lines of the advertisement, <<"flush">> standing for '0000'
formatInfoRefs(service, refs) ==
    << <<"service", service>>, <<"flush">> >> \o
    (IF Len(refs) = 0
     THEN << <<"ref", ZeroOid, <<"capabilities^{}">>, Capabilities>> >>
     ELSE [i \in 1..Len(refs) |->
             <<"ref", refs[i].oid, refs[i].name, IF i = 1 THEN Capabilities ELSE <<>> >>])
    \o << <<"flush">> >>

\* lines 123-130: the service parameter is validated first
IrBegin(p) ==
    \E actor \in Actors, service \in Services :
        /\ Accept(p, "info/refs", actor, service)
        /\ IF ValidService(service) THEN Goto(p, "ir_repo")
           ELSE Reply(p, 400, <<>>, <<>>, Null)
        /\ UNCHANGED repoVars

\* lines 132-145 up to the access-control call
IrResolve(p) ==
    /\ pc[p] = "ir_repo"
    /\ \E found \in BOOLEAN :
        IF ~found THEN Reply(p, 404, <<>>, <<>>, Null)
        ELSE IF req[p].service = "git-receive-pack"
             THEN IF req[p].actor = Null THEN Reply(p, 401, <<>>, <<>>, Null)
                  ELSE Goto(p, "ir_write")
             ELSE IF ReadCheckRequired(visibility)
                  THEN IF req[p].actor = Null THEN Reply(p, 401, <<>>, <<>>, Null)
                       ELSE Goto(p, "ir_read")
                  ELSE Goto(p, "ir_refs")
    /\ UNCHANGED <<repoVars, served, req, localVars, histVars>>

\* lines 139-140 and 143-144: hasWriteAccess / hasReadAccess
IrAccess(p) ==
    /\ pc[p] \in {"ir_write", "ir_read"}
    /\ \E granted \in BOOLEAN :
        /\ access' = [access EXCEPT ![p] =
                        Append(@, [op |-> IF pc[p] = "ir_write" THEN "write" ELSE "read",
                                   actor |-> req[p].actor, granted |-> granted])]
        /\ IF granted THEN Goto(p, "ir_refs") ELSE Reply(p, 403, <<>>, <<>>, Null)
    /\ UNCHANGED <<repoVars, served, req, localVars, snap, calls, unpacked, tracked>>

\* faulty variant: advertising a repository without branches creates its main branch
IrRefs_createsMain(p) ==
    /\ pc[p] = "ir_refs"
    /\ Reply(p, 200, formatInfoRefs(req[p].service, getRefs(branches)), <<>>, Null)
    /\ branches' = IF branches = <<>>
                   THEN Pushed(branches, <<"main">>, ZeroOid, req[p].actor, clock)
                   ELSE branches
    /\ UNCHANGED <<store, visibility, clock, pushLog, served, req, localVars, histVars>>

\* lines 147-150: getRefs and the advertisement
IrRefs(p) ==
    /\ pc[p] = "ir_refs"
    /\ Reply(p, 200, formatInfoRefs(req[p].service, getRefs(branches)), <<>>, Null)
    /\ UNCHANGED <<repoVars, served, req, localVars, histVars>>

InfoRefs(p) ==
    \/ IrResolve(p)
    \/ IrAccess(p)
    \/ IrRefs(p)

(* ------------------------ upload-pack: inputs ------------------------- *)
\* pkt-line payloads as space-separated tokens
WantOids == {"c1", "c2"}
HaveOids == {"c0", "c1"}
WantLines == {<<"want", o>> : o \in WantOids}
HaveLines == {<<"have", o>> : o \in HaveOids}

\* the first want line carries the client's capabilities
WantsWithCaps(ws) ==
    [i \in 1..Len(ws) |-> IF i = 1 THEN ws[i] \o <<"multi_ack">> ELSE ws[i]]

\* a body: the want lines, the have lines, then 'done'
UploadBody(ws, hs) ==
    [cmds |-> <<>>, pack |-> NoBody.pack,
     lines |-> WantsWithCaps(ws) \o hs \o << <<"done">> >>]

(* ----------------------- upload-pack: handler ------------------------- *)
RECURSIVE OidsOf(_, _)
\* lines 173-176: line.startsWith(word + ' ') collects line.split(' ')[1]
OidsOf(word, lines) ==
    IF lines = <<>> THEN <<>>
    ELSE (IF Len(Head(lines)) >= 2 /\ Head(lines)[1] = word
          THEN <<Head(lines)[2]>> ELSE <<>>) \o OidsOf(word, Tail(lines))

Wants(p) == OidsOf("want", body[p].lines)
Haves(p) == OidsOf("have", body[p].lines)

\* lines 190-192: the reachable oids that are not in haveSet are pushed onto neededOids
PushNeeded(neededOids, reachable, haveSet) ==
    neededOids \o SelectSeq(SelectInOrder(OidOrder, reachable), LAMBDA oid : oid \notin haveSet)

\* the object entries of the packfile built over oids
createPackfile(st, oids) == SelectSeq(oids, LAMBDA oid : oid \in st)

\* lines 154-158: nothing precedes getRepositoryByName
UpBegin(p) ==
    \E actor \in Actors :
        /\ Accept(p, "upload-pack", actor, Null)
        /\ Goto(p, "up_repo")
        /\ UNCHANGED repoVars

\* lines 157-162
UpResolve(p) ==
    /\ pc[p] = "up_repo"
    /\ \E found \in BOOLEAN :
        IF ~found THEN Reply(p, 404, <<>>, <<>>, Null)
        ELSE IF ReadCheckRequired(visibility)
             THEN IF req[p].actor = Null THEN Reply(p, 401, <<>>, <<>>, Null)
                  ELSE Goto(p, "up_read")
             ELSE Goto(p, "up_body")
    /\ UNCHANGED <<repoVars, served, req, localVars, histVars>>

\* lines 163-164: hasReadAccess
UpAccess(p) ==
    /\ pc[p] = "up_read"
    /\ \E granted \in BOOLEAN :
        /\ access' = [access EXCEPT ![p] =
                        Append(@, [op |-> "read", actor |-> req[p].actor,
                                   granted |-> granted])]
        /\ IF granted THEN Goto(p, "up_body") ELSE Reply(p, 403, <<>>, <<>>, Null)
    /\ UNCHANGED <<repoVars, served, req, localVars, snap, calls, unpacked, tracked>>

\* faulty variant: without a want the handler still goes on to build a packfile
UpBody_packsAnyway(p) ==
    /\ pc[p] = "up_body"
    /\ \E nw \in 0..MaxWants, nh \in 0..MaxHaves :
        \E ws \in [1..nw -> WantLines], hs \in [1..nh -> HaveLines] :
            LET b == UploadBody(ws, hs)
            IN /\ body' = [body EXCEPT ![p] = b]
               /\ IF OidsOf("want", b.lines) = <<>>
                  THEN Goto(p, "up_pack")
                  ELSE Goto(p, "up_reach")
    /\ UNCHANGED <<repoVars, served, req, updates, idx, commitCount, results, needed,
                   histVars>>

\* lines 167-186: the body arrives and is parsed; without a want the reply is NAK alone
UpBody(p) ==
    /\ pc[p] = "up_body"
    /\ \E nw \in 0..MaxWants, nh \in 0..MaxHaves :
        \E ws \in [1..nw -> WantLines], hs \in [1..nh -> HaveLines] :
            LET b == UploadBody(ws, hs)
            IN /\ body' = [body EXCEPT ![p] = b]
               /\ IF OidsOf("want", b.lines) = <<>>
                  THEN Reply(p, 200, << <<"NAK">> >>, <<>>, Null)
                  ELSE Goto(p, "up_reach")
    /\ UNCHANGED <<repoVars, served, req, updates, idx, commitCount, results, needed,
                   histVars>>

\* lines 188-193: one getReachableObjects per want
UpReach(p) ==
    /\ pc[p] = "up_reach"
    /\ needed' = [needed EXCEPT ![p] =
                    PushNeeded(@, getReachableObjects(store, Wants(p)[idx[p]]),
                               Range(Haves(p)))]
    /\ idx' = [idx EXCEPT ![p] = @ + 1]
    /\ IF idx[p] + 1 > Len(Wants(p)) THEN Goto(p, "up_pack") ELSE Goto(p, "up_reach")
    /\ UNCHANGED <<repoVars, served, req, body, updates, commitCount, results, histVars>>

\* lines 195-200: createPackfile over neededOids, sent after NAK
UpPack(p) ==
    /\ pc[p] = "up_pack"
    /\ Reply(p, 200, << <<"NAK">> >>, createPackfile(store, needed[p]), Null)
    /\ UNCHANGED <<repoVars, served, req, localVars, histVars>>

UploadPack(p) ==
    \/ UpResolve(p)
    \/ UpAccess(p)
    \/ UpReach(p)
    \/ UpPack(p)

(* --------------------------- specifications --------------------------- *)
\* one worker serving requests one after another
Next ==
    \/ RpBegin(W1)
    \/ RpBody(W1, PushLines, MaxCmds, Packs)
    \/ ReceivePack(W1)
    \/ TrackSettle(W1)
    \/ IrBegin(W1)
    \/ InfoRefs(W1)

Spec == Init /\ [][Next]_vars

\* the branches a read request may find: none, main, or main and dev
FetchHeads == {{}, {<<"main">>}, {<<"main">>, <<"dev">>}}

\* fetch side: a repository holding the chain up to a tip, with main pushed at that
\* tip and then dev at c0, or with fewer of these pushes accepted (a push whose only
\* command is rejected still stores its pack), read by one worker
InitFetch ==
    /\ \E tip \in {"c1", "c2"}, heads \in FetchHeads :
        LET br == Pushed(Pushed(<<>>, <<"main">>, tip, "alice", 1), <<"dev">>, "c0", "bob", 2)
            lg == Logged(Logged(<<>>, <<"main">>, Null, tip, "alice"), <<"dev">>, Null, "c0", "bob")
        IN /\ store = getReachableObjects(AllOids, tip)
           /\ branches = [n \in heads |-> br[n]]
           /\ pushLog = [n \in heads |-> lg[n]]
    /\ visibility \in {0, 1}
    /\ clock = 2
    /\ served = 0
    /\ arg = Null /\ ret = Null
    /\ pc = [p \in Procs |-> "idle"]
    /\ req = [p \in Procs |-> NoReq]
    /\ body = [p \in Procs |-> NoBody]
    /\ updates = [p \in Procs |-> <<>>]
    /\ idx = [p \in Procs |-> 1]
    /\ commitCount = [p \in Procs |-> 0]
    /\ results = [p \in Procs |-> <<>>]
    /\ needed = [p \in Procs |-> <<>>]
    /\ resp = [p \in Procs |-> NoResp]
    /\ snap = [p \in Procs |-> [branches |-> branches, store |-> store]]
    /\ calls = [p \in Procs |-> <<>>]
    /\ access = [p \in Procs |-> <<>>]
    /\ unpacked = [p \in Procs |-> "no"]
    /\ tracked = [p \in Procs |-> <<>>]

NextFetch ==
    \/ UpBegin(W1)
    \/ UpBody(W1)
    \/ UploadPack(W1)
    \/ IrBegin(W1)
    \/ InfoRefs(W1)

SpecFetch == InitFetch /\ [][NextFetch]_vars

(* ============================ properties ============================== *)
IsPush(p) == req[p].kind = "receive-pack"
Done(p) == pc[p] = "done"
LastCall(cs) == cs[Len(cs)]

\* C2: pushBranch succeeds exactly when the branch tip equals expectedOldOid, or the
\* branch is absent and the command carried the zero-oid create sentinel; on success
\* the tip is newOid, lastPusher the pusher and updatedAt the time of the push; on
\* failure NonFastForwardOrRaceError is raised and the branch map is unchanged.
C2_PushBranchCas ==
    [][\A p \in Procs :
        (pc[p] = "rp_push" /\ pc'[p] # "rp_push") =>
            LET c == LastCall(calls'[p])
                existed == c.branch \in DOMAIN branches
                should == \/ existed /\ branches[c.branch].tip = c.expectedOldOid
                          \/ ~existed /\ c.oldOid = ZeroOid
            IN IF should
               THEN /\ pc'[p] = "rp_loop"
                    /\ DOMAIN branches' = DOMAIN branches \cup {c.branch}
                    /\ branches'[c.branch] =
                         [tip |-> c.newOid, lastPusher |-> req[p].actor, updatedAt |-> clock']
                    /\ \A n \in DOMAIN branches \ {c.branch} : branches'[n] = branches[n]
               ELSE /\ pc'[p] = "done"
                    /\ resp'[p].error = "NonFastForwardOrRaceError"
                    /\ branches' = branches]_vars

\* a create push repeated on the branch it created has failed
C2_Witness ==
    /\ IsPush(W1) /\ Done(W1) /\ calls[W1] # <<>>
    /\ LET c == LastCall(calls[W1])
       IN /\ c.oldOid = ZeroOid /\ c.newOid # ZeroOid
          /\ c.branch \in DOMAIN c.before
          /\ c.before[c.branch].tip = c.newOid
          /\ c.before[c.branch].lastPusher = c.pusher
          /\ ~c.ok
          /\ branches = c.before

\* C3: every pushBranch call of a receive-pack request is made after extractPackfile
\* completed; when the extraction fails no pushBranch call is made and the branch
\* map is the one the request found.
C3_UnpackBeforeRefs ==
    /\ \A i \in 1..Len(calls[W1]) : calls[W1][i].unpacked = "ok"
    /\ (IsPush(W1) /\ unpacked[W1] = "failed") =>
            /\ calls[W1] = <<>>
            /\ branches = snap[W1].branches
            /\ Done(W1) /\ resp[W1].status = 500 /\ resp[W1].lines = <<>>

\* a corrupt pack arrived with a command whose compare-and-swap would have held
C3_Witness ==
    /\ IsPush(W1) /\ unpacked[W1] = "failed"
    /\ \E i \in 1..Len(updates[W1]) :
        /\ IsBranchRef(updates[W1][i].refName)
        /\ updates[W1][i].newOid # ZeroOid
        /\ CasHolds(branches, BranchName(updates[W1][i].refName),
                    IF updates[W1][i].oldOid = ZeroOid THEN Null ELSE updates[W1][i].oldOid)

\* C4: a compare-and-swap failure on one ref is reported as an ng line for that ref in
\* a complete status report (one line per command), never as a failed request.
C4_CasFailureReportedPerRef ==
    (IsPush(W1) /\ Done(W1) /\ \E i \in 1..Len(calls[W1]) : ~calls[W1][i].ok) =>
        /\ resp[W1].status = 200
        /\ Len(resp[W1].lines) = 1 + Len(updates[W1])
        /\ \A i \in 1..Len(calls[W1]) :
              ~calls[W1][i].ok =>
                  \E j \in 2..Len(resp[W1].lines) :
                      /\ resp[W1].lines[j][1] = "ng"
                      /\ resp[W1].lines[j][2] = <<"refs", "heads">> \o calls[W1][i].branch

\* C5: the response of a receive-pack request whose pack was stored is 'unpack ok'
\* followed by one ok/ng line per command of the request, in command order.
C5_StatusLinePerCommand ==
    (IsPush(W1) /\ Done(W1) /\ unpacked[W1] = "ok") =>
        /\ Len(resp[W1].lines) = 1 + Len(updates[W1])
        /\ resp[W1].lines[1] = <<"unpack ok">>
        /\ \A i \in 1..Len(updates[W1]) :
              /\ resp[W1].lines[i + 1][1] \in {"ok", "ng"}
              /\ resp[W1].lines[i + 1][2] = updates[W1][i].refName

\* C8: a receive-pack request touches the object store or a ref only after it carried
\* an actor and hasWriteAccess answered true for that actor; a request ended 401 or
\* 403 sent no protocol output and left store and refs as it found them.
C8_WriteNeedsAccess ==
    IsPush(W1) =>
        /\ (unpacked[W1] # "no" \/ calls[W1] # <<>> \/ store # snap[W1].store
               \/ branches # snap[W1].branches)
              => /\ req[W1].actor # Null
                 /\ access[W1] = <<[op |-> "write", actor |-> req[W1].actor, granted |-> TRUE]>>
        /\ (Done(W1) /\ req[W1].actor = Null) => resp[W1].status = 401
        /\ (Done(W1) /\ access[W1] # <<>> /\ ~access[W1][1].granted) => resp[W1].status = 403
        /\ resp[W1].status \in {401, 403}
              => /\ resp[W1].lines = <<>>
                 /\ store = snap[W1].store
                 /\ branches = snap[W1].branches
                 /\ calls[W1] = <<>>

\* write access was denied on a repository that already has a branch and objects
C8_Witness ==
    /\ IsPush(W1) /\ Done(W1) /\ resp[W1].status = 403
    /\ access[W1] # <<>> /\ ~access[W1][1].granted
    /\ store # {} /\ DOMAIN branches # {}

\* C10: no existing branch has the zero oid (or no oid) as its tip, and a command whose
\* newOid is the zero oid leaves its branch absent.
C10_NoZeroTip ==
    /\ \A n \in DOMAIN branches : branches[n].tip \notin {ZeroOid, Null}
    /\ \A i \in 1..Len(calls[W1]) :
          (calls[W1][i].ok /\ calls[W1][i].newOid = ZeroOid /\ i = Len(calls[W1])
             /\ pc[W1] = "rp_loop")
            => calls[W1][i].branch \notin DOMAIN branches

IsFetch(p) == req[p].kind = "upload-pack"
IsAdvert(p) == req[p].kind = "info/refs"
\* the request was answered with ref or object data
DataReturned(p) ==
    /\ Done(p) /\ resp[p].status = 200
    /\ \/ IsAdvert(p)
       \/ IsFetch(p) /\ resp[p].pack # <<>>

\* C6: with the chain c0 <- c1 <- c2 stored, want=c2 have=c1 is answered with a
\* packfile holding exactly the objects of c2 that are not reachable from c1.
C6_WantC2HaveC1 ==
    (IsFetch(W1) /\ Done(W1) /\ resp[W1].status = 200
        /\ {"c0", "c1", "c2"} \subseteq store
        /\ Wants(W1) = <<"c2">> /\ Haves(W1) = <<"c1">>)
      => Range(resp[W1].pack) =
            getReachableObjects(store, "c2") \ getReachableObjects(store, "c1")

\* C7: the oids handed to createPackfile are the union of the wants' reachable sets
\* minus the have set, each exactly once.
C7_NeededIsSetDifference ==
    (IsFetch(W1) /\ pc[W1] = "up_pack") =>
        /\ Range(needed[W1]) =
              UNION {getReachableObjects(store, Wants(W1)[i]) : i \in 1..Len(Wants(W1))}
                \ Range(Haves(W1))
        /\ Cardinality(Range(needed[W1])) = Len(needed[W1])

\* the access-control answer the request obtained for its actor
Granted(p, op) ==
    /\ req[p].actor # Null
    /\ access[p] = <<[op |-> op, actor |-> req[p].actor, granted |-> TRUE]>>

CorruptPackArrived(p) ==
    /\ IsPush(p) /\ body[p] # NoBody /\ ~body[p].pack.valid
    /\ pc[p] # "rp_extract"

\* C11: a receive-pack request whose packfile is corrupt ends at the extraction: its
\* response carries no "unpack ok" line and no "ok <ref>" line, and every branch is
\* where the request found it.
C11_CorruptPackIsTerminal ==
    CorruptPackArrived(W1) =>
        /\ Done(W1)
        /\ resp[W1].status # 200
        /\ \A i \in 1..Len(resp[W1].lines) :
              /\ resp[W1].lines[i] # <<"unpack ok">>
              /\ resp[W1].lines[i][1] # "ok"
        /\ results[W1] = <<>>
        /\ branches = snap[W1].branches

\* a corrupt pack came with two commands, and part of it had been stored before the
\* extraction failed
C11_Witness ==
    /\ CorruptPackArrived(W1) /\ Done(W1)
    /\ Len(updates[W1]) = 2
    /\ store # snap[W1].store
    /\ resp[W1].error = "CorruptPackError"

(* --------------------------- advertisement ---------------------------- *)
Advertised(p) == IsAdvert(p) /\ Done(p) /\ resp[p].status = 200
\* the <oid, ref name> pairs of the ref lines of an advertisement
AdvertRefs(lines) ==
    {<<lines[i][2], lines[i][3]>> :
        i \in {k \in 1..Len(lines) :
                 lines[k][1] = "ref" /\ lines[k][3] # <<"capabilities^{}">>}}

\* C12: an info/refs advertisement lists exactly the branches that have been pushed
\* successfully, each at the newOid of the most recent successful push to it.
C12_AdvertShowsLastPush ==
    Advertised(W1) =>
        AdvertRefs(resp[W1].lines) =
            {<<pushLog[n][Len(pushLog[n])].newOid, <<"refs", "heads">> \o n>> :
                n \in DOMAIN pushLog}

\* main was pushed at c0 and then from c0 to c1, and is advertised at c1
C12_Witness ==
    /\ Advertised(W1)
    /\ <<"main">> \in DOMAIN pushLog
    /\ Len(pushLog[<<"main">>]) = 2
    /\ pushLog[<<"main">>][1].newOid = "c0"
    /\ pushLog[<<"main">>][2].expectedOldOid = "c0"
    /\ AdvertRefs(resp[W1].lines) = {<<"c1", RefMain>>}

\* C13: an advertisement is the service line, a flush, one line per ref in getRefs
\* order with the capabilities after the ref name on the first line only, and a
\* flush; without refs the only ref line is the zero oid with capabilities^{} and
\* the capabilities.
C13_AdvertLayout ==
    Advertised(W1) =>
        LET ls == resp[W1].lines
            refs == getRefs(branches)
        IN /\ Len(ls) = (IF refs = <<>> THEN 1 ELSE Len(refs)) + 3
           /\ ls[1] = <<"service", req[W1].service>>
           /\ ls[2] = <<"flush">>
           /\ ls[Len(ls)] = <<"flush">>
           /\ Capabilities # <<>>
           /\ refs = <<>> => ls[3] = <<"ref", ZeroOid, <<"capabilities^{}">>, Capabilities>>
           /\ \A i \in 1..Len(refs) :
                 /\ ls[i + 2][1] = "ref"
                 /\ ls[i + 2][2] = refs[i].oid
                 /\ ls[i + 2][3] = refs[i].name
                 /\ ls[i + 2][4] = (IF i = 1 THEN Capabilities ELSE <<>>)

\* a repository with two branches was advertised
C13_Witness ==
    /\ Advertised(W1)
    /\ Len(getRefs(branches)) = 2
    /\ Len(resp[W1].lines) = 5
    /\ resp[W1].lines[4][4] = <<>>

\* a repository without refs was advertised
C13_WitnessNoRefs ==
    /\ Advertised(W1)
    /\ branches = <<>>
    /\ Len(resp[W1].lines) = 4

(* ------------------------------- fetch -------------------------------- *)
\* the body of an upload-pack request has arrived and none of its lines is a want
NoWantArrived(p) ==
    /\ IsFetch(p) /\ body[p] # NoBody
    /\ \A i \in 1..Len(body[p].lines) : body[p].lines[i][1] # "want"

\* C14: an upload-pack request whose body has no want line is answered at once with
\* the single pkt-line NAK: no reachability walk is made and no packfile is built.
C14_NoWantIsNakOnly ==
    NoWantArrived(W1) =>
        /\ Done(W1)
        /\ resp[W1].status = 200
        /\ resp[W1].lines = << <<"NAK">> >>
        /\ resp[W1].pack = <<>>
        /\ needed[W1] = <<>>
        /\ idx[W1] = 1

\* a body of have lines only was answered
C14_Witness ==
    /\ NoWantArrived(W1) /\ Done(W1)
    /\ Len(body[W1].lines) = 3
    /\ body[W1].lines[1][1] = "have"
    /\ resp[W1].lines = << <<"NAK">> >>

\* a step of worker p that belongs to an upload-pack or info/refs request
ReadStep(p) ==
    /\ <<pc[p], req[p], resp[p], body[p]>>' # <<pc[p], req[p], resp[p], body[p]>>
    /\ req'[p].kind \in {"upload-pack", "info/refs"}

\* C15: no step of an upload-pack or info/refs request, from its arrival to its
\* response, changes the object store or any branch, so the repository is as the
\* request found it wherever the request stops.
C15_ReadsChangeNothing ==
    [][\A p \in Procs : ReadStep(p) => store' = store /\ branches' = branches]_vars

\* an upload-pack request was answered with objects and the repository is as it found it
C15_Witness ==
    /\ IsFetch(W1) /\ Done(W1)
    /\ resp[W1].pack # <<>>
    /\ snap[W1] = [branches |-> branches, store |-> store]

\* the same for an advertisement of two branches
C15_WitnessAdvert ==
    /\ Advertised(W1)
    /\ Cardinality(AdvertRefs(resp[W1].lines)) = 2
    /\ snap[W1] = [branches |-> branches, store |-> store]

\* C16: an info/refs request whose service parameter is absent or is neither
\* git-upload-pack nor git-receive-pack is answered 400 in its first step: the
\* repository is never resolved, no access-control call is made and no ref is read.
C16_BadServiceIs400 ==
    (IsAdvert(W1) /\ req[W1].service \notin {"git-upload-pack", "git-receive-pack"}) =>
        /\ Done(W1)
        /\ resp[W1].status = 400
        /\ resp[W1].lines = <<>>
        /\ access[W1] = <<>>

\* an unknown service was asked of a private repository by a user
C16_Witness ==
    /\ IsAdvert(W1) /\ Done(W1)
    /\ req[W1].service = "git-annex" /\ req[W1].actor \in Users
    /\ visibility = 1 /\ branches # <<>>
    /\ resp[W1].status = 400

\* the service parameter was absent
C16_WitnessAbsent ==
    /\ IsAdvert(W1) /\ Done(W1)
    /\ req[W1].service = Null
    /\ resp[W1].status = 400

(* --------------------------- rejected refs ---------------------------- *)
UnderHeads(refName) == Len(refName) >= 3 /\ refName[1] = "refs" /\ refName[2] = "heads"
\* the commands of the request that name a branch, in order
HeadsCommands(p) == SelectSeq(updates[p], LAMBDA u : UnderHeads(u.refName))

\* what the claim says of commands outside refs/heads/, for the reason text given
RejectedOutsideHeads(reason) ==
    IsPush(W1) =>
        \* each such command the loop has passed has its ng result with the reason
        /\ \A i \in 1..Len(results[W1]) :
              ~UnderHeads(updates[W1][i].refName) =>
                  results[W1][i] = [ref |-> updates[W1][i].refName, success |-> FALSE,
                                    error |-> reason]
        \* and its status line in the report
        /\ (Done(W1) /\ resp[W1].status = 200) =>
              /\ Len(resp[W1].lines) = Len(updates[W1]) + 1
              /\ \A i \in 1..Len(updates[W1]) :
                    ~UnderHeads(updates[W1][i].refName) =>
                        resp[W1].lines[i + 1] = <<"ng", updates[W1][i].refName, reason>>
        \* the pushBranch calls are those of the branch commands, in order
        /\ Len(calls[W1]) <= Len(HeadsCommands(W1))
        /\ \A k \in 1..Len(calls[W1]) :
              /\ <<"refs", "heads">> \o calls[W1][k].branch = HeadsCommands(W1)[k].refName
              /\ calls[W1][k].newOid = HeadsCommands(W1)[k].newOid
        \* the loop goes on after a rejection: it stops early only on a failed pushBranch
        /\ (Done(W1) /\ unpacked[W1] = "ok" /\ resp[W1].status # 200) =>
              /\ calls[W1] # <<>>
              /\ ~LastCall(calls[W1]).ok

\* C17 as stated: a command whose ref is outside refs/heads/ is rejected with the
\* status line ng <ref> ref-not-supported, pushBranch is not called for it, and the
\* other commands of the push are still processed.
C17_RejectedAsRefNotSupported == RejectedOutsideHeads("ref-not-supported")

\* C17 amended: the same, the reason on the status line being the text
\* "Only branch updates supported".
C17_RejectedAsOnlyBranchUpdates == RejectedOutsideHeads("Only branch updates supported")

\* a tag command was rejected and the branch command after it was applied
C17_Witness ==
    /\ IsPush(W1) /\ Done(W1) /\ resp[W1].status = 200
    /\ Len(updates[W1]) = 2
    /\ updates[W1][1].refName = RefTag
    /\ resp[W1].lines[2][1] = "ng"
    /\ resp[W1].lines[3] = <<"ok", RefMain>>
    /\ Len(calls[W1]) = 1
    /\ branches # snap[W1].branches

(* ------------------------ contribution tracking ---------------------- *)
\* the contributions tracked by the request are those of its successful pushBranch
\* calls, in order, each for a branch command; and a successful call is reported and
\* applied whatever became of its tracking
TrackedOnlyAfterSuccess ==
    IsPush(W1) =>
        /\ Len(tracked[W1]) = Cardinality({k \in 1..Len(calls[W1]) : calls[W1][k].ok})
        /\ \A k \in 1..Len(tracked[W1]) :
              /\ calls[W1][k].ok
              /\ tracked[W1][k].branch = calls[W1][k].branch
              /\ <<"refs", "heads">> \o tracked[W1][k].branch = HeadsCommands(W1)[k].refName
              /\ pushLog[calls[W1][k].branch] # <<>>
        /\ (Done(W1) /\ resp[W1].status = 200) =>
              \A i \in 1..Len(updates[W1]) :
                  UnderHeads(updates[W1][i].refName) =>
                      resp[W1].lines[i + 1] = <<"ok", updates[W1][i].refName>>

\* a step in which a tracked contribution of worker p ends
Settles(p) ==
    /\ Len(tracked'[p]) = Len(tracked[p])
    /\ tracked'[p] # tracked[p]

RaceLines ==
    {Cmd(ZeroOid, "c0", RefMain), Cmd(ZeroOid, "c1", RefMain), Cmd("c0", "c1", RefMain),
     Cmd("c0", ZeroOid, RefMain), Cmd("c0", "c0", RefMain), Cmd(ZeroOid, "c0", RefDev)}
IntactPacks == {pk \in Packs : pk.valid}

\* two workers pushing single-command bodies with intact packs to a public repository
\* that is empty or has main at c0
InitConc ==
    /\ \/ branches = <<>> /\ store = {} /\ clock = 0 /\ pushLog = <<>>
       \/ /\ branches = Pushed(<<>>, <<"main">>, "c0", "alice", 1)
          /\ pushLog = Logged(<<>>, <<"main">>, Null, "c0", "alice")
          /\ store = Range(NewObjects("c0"))
          /\ clock = 1
    /\ visibility = 0
    /\ served = 0
    /\ arg = Null /\ ret = Null
    /\ pc = [p \in Procs |-> "idle"]
    /\ req = [p \in Procs |-> NoReq]
    /\ body = [p \in Procs |-> NoBody]
    /\ updates = [p \in Procs |-> <<>>]
    /\ idx = [p \in Procs |-> 1]
    /\ commitCount = [p \in Procs |-> 0]
    /\ results = [p \in Procs |-> <<>>]
    /\ needed = [p \in Procs |-> <<>>]
    /\ resp = [p \in Procs |-> NoResp]
    /\ snap = [p \in Procs |-> [branches |-> branches, store |-> store]]
    /\ calls = [p \in Procs |-> <<>>]
    /\ access = [p \in Procs |-> <<>>]
    /\ unpacked = [p \in Procs |-> "no"]
    /\ tracked = [p \in Procs |-> <<>>]

NextConc ==
    \E p \in Procs :
        \/ RpBegin(p)
        \/ RpBody(p, RaceLines, 1, IntactPacks)
        \/ ReceivePack(p)

SpecConc == InitConc /\ [][NextConc]_vars

\* the command of request p named the tip its branch had when the request began
CarriedCurrentTip(p) ==
    LET c == calls[p][1]
    IN IF c.branch \in DOMAIN snap[p].branches
       THEN snap[p].branches[c.branch].tip = c.oldOid /\ c.oldOid # ZeroOid
       ELSE c.oldOid = ZeroOid

\* two requests in flight together have each made their pushBranch call on the same
\* branch, with the same old oid (the tip both found) and different new oids
Raced(p, q) ==
    /\ p # q
    /\ Len(calls[p]) = 1 /\ Len(calls[q]) = 1
    /\ calls[p][1].branch = calls[q][1].branch
    /\ calls[p][1].oldOid = calls[q][1].oldOid
    /\ calls[p][1].newOid # calls[q][1].newOid
    /\ CarriedCurrentTip(p) /\ CarriedCurrentTip(q)

\* request p's call succeeded and q's was refused
Won(p, q) ==
    /\ calls[p][1].ok /\ ~calls[q][1].ok
    /\ Done(q) /\ resp[q].status = 500 /\ resp[q].error = "NonFastForwardOrRaceError"
    /\ resp[p].error = Null
    /\ calls[p][1].branch \in DOMAIN branches
    /\ branches[calls[p][1].branch].tip = calls[p][1].newOid
    /\ branches[calls[p][1].branch].lastPusher = req[p].actor

\* C1 as stated: of two concurrent pushBranch calls on one branch with the same
\* expectedOldOid (the current tip) and different newOids exactly one succeeds, the
\* other raises NonFastForwardOrRaceError, and the tip is the winner's newOid.
C1_OneWinner ==
    \A p, q \in Procs : Raced(p, q) => (Won(p, q) \/ Won(q, p))

\* C1 amended: the same, for two calls whose newOids also differ from the
\* expectedOldOid they carry (a push of the tip onto itself leaves the
\* compare-and-swap precondition of the other call intact).
C1_OneWinnerOfRealUpdates ==
    \A p, q \in Procs :
        (Raced(p, q) /\ calls[p][1].newOid # calls[p][1].oldOid
                     /\ calls[q][1].newOid # calls[q][1].oldOid)
          => (Won(p, q) \/ Won(q, p))

\* both racing calls were updates of an existing branch, and both have returned
C1_Witness ==
    /\ Raced("w1", "w2")
    /\ calls["w1"][1].oldOid = "c0"
    /\ calls["w1"][1].newOid = "c1" /\ calls["w2"][1].newOid = ZeroOid
    /\ Won("w2", "w1")

(* ------------------------- pushes side by side ------------------------ *)
TipIn(br, n) == IF n \in DOMAIN br THEN br[n].tip ELSE Null
\* the branch a command names
Named(u) == SubSeq(u.refName, 3, Len(u.refName))

\* request p found the branch of its one command at the old oid the command carries
ExpectsWhatItFound(p) ==
    LET u == updates[p][1]
    IN /\ UnderHeads(u.refName)
       /\ TipIn(snap[p].branches, Named(u)) = (IF u.oldOid = ZeroOid THEN Null ELSE u.oldOid)

\* the state of branch n in a branch map: empty when the branch is absent
StateIn(br, n) == {br[m] : m \in DOMAIN br \cap {n}}

\* two requests that found their two different branches in the same state (no push
\* came between their arrivals), each carrying the tip of its own branch, have each
\* made their pushBranch call
SideBySide(p, q) ==
    /\ p # q
    /\ Len(calls[p]) = 1 /\ Len(calls[q]) = 1
    /\ ExpectsWhatItFound(p) /\ ExpectsWhatItFound(q)
    /\ Named(updates[p][1]) # Named(updates[q][1])
    /\ \A n \in {Named(updates[p][1]), Named(updates[q][1])} :
          StateIn(snap[p].branches, n) = StateIn(snap[q].branches, n)

\* request p's update is applied
Applied(p) ==
    LET u == updates[p][1]
    IN /\ calls[p][1].ok
       /\ resp[p].error = Null
       /\ Named(u) \in DOMAIN branches
       /\ branches[Named(u)].tip = u.newOid
       /\ branches[Named(u)].lastPusher = req[p].actor
       /\ Done(p) => resp[p].lines = << <<"unpack ok">>, <<"ok", u.refName>> >>

Reader == "w2"

\* the lines of the pushes that are read among: create main, fast-forward it, create dev
ReadLines ==
    {Cmd(ZeroOid, "c0", RefMain), Cmd("c0", "c1", RefMain), Cmd(ZeroOid, "c0", RefDev)}

\* two workers serving single-command pushes, one of them info/refs requests too, on
\* the repository of InitConc
NextRead ==
    \/ \E p \in Procs :
          \/ RpBegin(p)
          \/ RpBody(p, ReadLines, 1, IntactPacks)
          \/ ReceivePack(p)
    \/ IrBegin(Reader)
    \/ InfoRefs(Reader)

SpecRead == InitConc /\ [][NextRead]_vars

\* some successful push of branch n set it to oid
WasPushed(n, oid) ==
    /\ n \in DOMAIN pushLog
    /\ \E k \in 1..Len(pushLog[n]) : pushLog[n][k].newOid = oid

\* C20: what a read returns for a branch, at any point among the pushes, is the
\* newOid of a successful push of that branch that had completed, and the
\* lastPusher read with it is the pusher of that same push; a branch never pushed
\* is absent.
C20_ReadsSeeCompletedPushes ==
    \* getBranch / getBranches, reading the branch map as it is in any state
    /\ \A n \in DOMAIN branches :
          /\ n \in DOMAIN pushLog
          /\ \E k \in 1..Len(pushLog[n]) :
                /\ pushLog[n][k].newOid = branches[n].tip
                /\ pushLog[n][k].pusher = branches[n].lastPusher
    /\ DOMAIN pushLog = DOMAIN branches
    \* getRefs, as the advertisement shows it
    /\ Advertised(Reader) =>
          \A r \in AdvertRefs(resp[Reader].lines) :
              /\ UnderHeads(r[2])
              /\ WasPushed(SubSeq(r[2], 3, Len(r[2])), r[1])

\* an advertisement read main at c0 after a push had begun that has since moved main
C20_Witness ==
    /\ Advertised(Reader)
    /\ AdvertRefs(resp[Reader].lines) = {<<"c0", RefMain>>}
    /\ IsPush(W1) /\ pc[W1] # "done"
    /\ snap[W1].branches = snap[Reader].branches
    /\ branches[<<"main">>].tip = "c1"

(* ================= library operations on their own ==================== *)
\* everything of the router's state stays as the router was constructed
RouterIdle ==
    UNCHANGED <<branches, store, visibility, clock, served, pc, req, body, updates, idx,
                commitCount, results, needed, resp, snap, calls, access, unpacked,
                tracked, pushLog>>

(* ------------------------------- bytes -------------------------------- *)
\* a byte string is a sequence of runs: n >= 1 copies of character ch, adjacent runs
\* differing in ch, so that equal byte strings are equal values
Run(c, k) == [ch |-> c, n |-> k]

RECURSIVE Norm(_)
Norm(b) ==
    IF b = <<>> THEN <<>>
    ELSE IF b[1].n <= 0 THEN Norm(Tail(b))
    ELSE LET r == Norm(Tail(b))
         IN IF r # <<>> /\ r[1].ch = b[1].ch
            THEN <<Run(b[1].ch, b[1].n + r[1].n)>> \o Tail(r)
            ELSE <<b[1]>> \o r

\* a followed by b; the runs that meet are joined when they are of one character
Cat(a, b) ==
    IF a = <<>> THEN b
    ELSE IF b = <<>> THEN a
    ELSE IF a[Len(a)].ch = b[1].ch
    THEN SubSeq(a, 1, Len(a) - 1) \o <<Run(b[1].ch, a[Len(a)].n + b[1].n)>> \o Tail(b)
    ELSE a \o b

\* the byte string of a text given character by character
Str(chars) == Norm([i \in 1..Len(chars) |-> Run(chars[i], 1)])

RECURSIVE ByteLen(_)
ByteLen(b) == IF b = <<>> THEN 0 ELSE b[1].n + ByteLen(Tail(b))

RECURSIVE Take(_, _)
\* the first k bytes of b (all of b when it is shorter)
Take(b, k) ==
    IF k <= 0 \/ b = <<>> THEN <<>>
    ELSE IF b[1].n >= k THEN <<Run(b[1].ch, k)>>
    ELSE <<b[1]>> \o Take(Tail(b), k - b[1].n)

RECURSIVE Drop(_, _)
\* b without its first k bytes
Drop(b, k) ==
    IF k <= 0 \/ b = <<>> THEN b
    ELSE IF b[1].n > k THEN <<Run(b[1].ch, b[1].n - k)>> \o Tail(b)
    ELSE Drop(Tail(b), k - b[1].n)

RECURSIVE Chars(_)
\* the characters of a (short) byte string, one by one
Chars(b) ==
    IF b = <<>> THEN <<>>
    ELSE <<b[1].ch>> \o Chars(Drop(b, 1))

RECURSIVE CatAll(_)
CatAll(bs) == IF bs = <<>> THEN <<>> ELSE Cat(Head(bs), CatAll(Tail(bs)))

(* --------------------------- pkt-line codec --------------------------- *)
HexDigits == <<"0", "1", "2", "3", "4", "5", "6", "7", "8", "9", "a", "b", "c", "d", "e", "f">>
IsHex(c) == \E i \in 1..16 : HexDigits[i] = c
HexVal(c) == (CHOOSE i \in 1..16 : HexDigits[i] = c) - 1

RECURSIVE ToHex(_)
\* n in lowercase hex, without padding
ToHex(n) == IF n < 16 THEN <<HexDigits[n + 1]>> ELSE ToHex(n \div 16) \o <<HexDigits[(n % 16) + 1]>>

\* digits zero-padded to at least 4 characters
PadStart4(d) == IF Len(d) >= 4 THEN d ELSE [i \in 1..(4 - Len(d)) |-> "0"] \o d

\* the four header characters as a number, or -1 when one of them is no hex digit
HeaderVal(h) ==
    IF \A i \in 1..4 : IsHex(h[i])
    THEN 4096 * HexVal(h[1]) + 256 * HexVal(h[2]) + 16 * HexVal(h[3]) + HexVal(h[4])
    ELSE -1

\* faulty variant: the length written is that of the payload alone
createPktLine_payloadLength(s) == Cat(Str(PadStart4(ToHex(ByteLen(s)))), s)

\* createPktLine(s): len(s) + 4 in lowercase hex, zero-padded to 4 digits, then s
createPktLine(s) == Cat(Str(PadStart4(ToHex(ByteLen(s) + 4))), s)

\* createFlushPkt(): '0000'
createFlushPkt == <<Run("0", 4)>>

RECURSIVE parsePktLines(_)
\* parsePktLines(buffer): the payloads of the pkt-lines read one after another until
\* the buffer is exhausted or a flush-pkt is seen; a header that is no length, or a
\* length the buffer cannot satisfy, ends the reading too
parsePktLines(buffer) ==
    IF ByteLen(buffer) < 4 THEN <<>>
    ELSE LET length == HeaderVal(Chars(Take(buffer, 4)))
         IN IF length = 0 THEN <<>>
            ELSE IF length < 4 \/ length > ByteLen(buffer) THEN <<>>
            ELSE <<Drop(Take(buffer, length), 4)>> \o parsePktLines(Drop(buffer, length))

(* ----------------------- pkt-line codec on its own -------------------- *)
\* strings framed in one behaviour
MaxSeq == 2

\* the longest payload a pkt-line frames: the largest length four hex digits can
\* write (ffff), less the four header bytes
MaxPayload == 65535 - 4

\* byte-level oids: forty hex digits each
OidBytes(oid) ==
    CASE oid = ZeroOid -> <<Run("0", 40)>>
      [] oid = "c0" -> <<Run("a", 40)>>
      [] oid = "c1" -> <<Run("b", 40)>>
      [] oid = "c2" -> <<Run("c", 40)>>

\* ASCII strings without NUL: the empty string, one character, a text that reads like
\* a flush-pkt, a want line, the pack marker, and strings around the longest payload
Texts ==
    {<<>>, Str(<<"a">>), Str(<<"0", "0", "0", "0">>),
     Cat(Str(<<"w", "a", "n", "t", " ">>), OidBytes("c1")),
     Str(<<"P", "A", "C", "K">>),
     <<Run("x", MaxPayload)>>, <<Run("x", MaxPayload + 1)>>}

InitPkt ==
    /\ RouterStart
    /\ \E n \in 0..MaxSeq : \E seq \in [1..n -> Texts] : arg = [seq |-> seq]
    /\ ret = [stage |-> "start", wire |-> <<>>, lines |-> <<>>]

\* concat(map(createPktLine, seq))
PktEncode ==
    /\ ret.stage = "start"
    /\ ret' = [stage |-> "encoded",
               wire |-> CatAll([i \in 1..Len(arg.seq) |-> createPktLine(arg.seq[i])]),
               lines |-> <<>>]
    /\ UNCHANGED arg
    /\ RouterIdle

\* parsePktLines of the bytes produced
PktDecode ==
    /\ ret.stage = "encoded"
    /\ ret' = [ret EXCEPT !.stage = "decoded", !.lines = parsePktLines(ret.wire)]
    /\ UNCHANGED arg
    /\ RouterIdle

NextPkt == PktEncode \/ PktDecode

SpecPkt == InitPkt /\ [][NextPkt]_vars

EmptyStore == <<>>
NotFound == [type |-> Null, content |-> <<>>]

\* the oid is the SHA-1 of "<type> <size>\0<content>": a digest is named by what
\* was digested, so two oids are equal exactly when type and content are
hashObject(type, content) == <<"sha1", type, ByteLen(content), content>>

\* getObject(oid): the envelope, or not-found; never an error
getObject(st, oid) == IF oid \in DOMAIN st THEN st[oid] ELSE NotFound

\* faulty variant: the oid is the number of the slot taken
putObject_counter(st, type, content) ==
    LET oid == <<"slot", Cardinality(DOMAIN st)>>
    IN [store |-> [o \in DOMAIN st \cup {oid} |->
                      IF o = oid THEN [type |-> type, content |-> content] ELSE st[o]],
        oid |-> oid]

\* faulty variant: the store keeps the object put last and nothing else
putObject_replaces(st, type, content) ==
    LET oid == hashObject(type, content)
    IN [store |-> [o \in {oid} |-> [type |-> type, content |-> content]], oid |-> oid]

\* putObject(type, content): computes the oid, stores the object unless it is there
\* already, returns the oid
putObject(st, type, content) ==
    LET oid == hashObject(type, content)
    IN [store |-> IF oid \in DOMAIN st THEN st
                  ELSE [o \in DOMAIN st \cup {oid} |->
                           IF o = oid THEN [type |-> type, content |-> content] ELSE st[o]],
        oid |-> oid]

(* --------------------------- packfile codec --------------------------- *)
PackMagic == Str(<<"P", "A", "C", "K">>)
PackVersion == 2

\* zlib: what is stored in the pack is not the content (a two-byte zlib header goes
\* first), and inflating gives the content back
Deflate(content) == <<Run("zlib", 2)>> \o content
\* faulty variant: the deflated bytes are stored as they are
Inflate_asIs(data) == data
Inflate(data) == Tail(data)

\* the SHA-1 over everything that precedes the trailer
PackChecksum(magic, version, count, entries) == <<"sha1", magic, version, count, entries>>

RECURSIVE InSomeOrder(_)
\* the objects in the order the encoder happens to write them
InSomeOrder(S) ==
    IF S = {} THEN <<>> ELSE LET o == CHOOSE x \in S : TRUE IN <<o>> \o InSomeOrder(S \ {o})

\* createPackfile(store, oids): magic, version 2, object count, then per object a
\* type+size header and the deflated content, then the checksum
createPackfileOf(st, oids) ==
    LET order == InSomeOrder(oids \cap DOMAIN st)
        entries == [i \in 1..Len(order) |->
                       [type |-> st[order[i]].type,
                        size |-> ByteLen(st[order[i]].content),
                        data |-> Deflate(st[order[i]].content)]]
    IN [magic |-> PackMagic, version |-> PackVersion, count |-> Len(order),
        entries |-> entries,
        checksum |-> PackChecksum(PackMagic, PackVersion, Len(order), entries)]

RECURSIVE PutAll(_, _, _)
\* putObject for the first k objects of the pack, one after another
PutAll(st, entries, k) ==
    IF k = 0 THEN st
    ELSE putObject(PutAll(st, entries, k - 1), entries[k].type, Inflate(entries[k].data)).store

\* extractPackfile(store, bytes): validates magic and version, reads the count, puts
\* each object; CorruptPackError on magic or version mismatch, on a stream that ends
\* before the count is reached, and on a checksum mismatch, with the objects read
\* until then already put
extractPackfile(st, pack) ==
    IF pack.magic # PackMagic \/ pack.version # PackVersion
    THEN [store |-> st, error |-> "CorruptPackError"]
    ELSE LET present == IF Len(pack.entries) < pack.count THEN Len(pack.entries) ELSE pack.count
             after == PutAll(st, pack.entries, present)
         IN IF present < pack.count
            THEN [store |-> after, error |-> "CorruptPackError"]
            ELSE IF pack.checksum # PackChecksum(pack.magic, pack.version, pack.count, pack.entries)
            THEN [store |-> after, error |-> "CorruptPackError"]
            ELSE [store |-> after, error |-> Null]

\* objects the stores are filled from: a blob and a tree of the same content, an
\* empty blob, a commit
SomeObjects ==
    {[type |-> "blob", content |-> Str(<<"x">>)],
     [type |-> "tree", content |-> Str(<<"x">>)],
     [type |-> "blob", content |-> <<>>],
     [type |-> "commit", content |-> Str(<<"t", "r", "e", "e">>)]}

RECURSIVE Filled(_)
\* the store after putObject of each of the objects
Filled(objs) ==
    IF objs = {} THEN EmptyStore
    ELSE LET o == CHOOSE x \in objs : TRUE
         IN putObject(Filled(objs \ {o}), o.type, o.content).store

(* ----------------------- packfile codec on its own -------------------- *)
\* objects in the store a pack is made from
MaxObjs == 3

InitPack ==
    /\ RouterStart
    /\ \E objs \in SUBSET SomeObjects :
         /\ Cardinality(objs) <= MaxObjs
         /\ \E S \in SUBSET objs :
              arg = [store |-> Filled(objs), oids |-> {hashObject(o.type, o.content) : o \in S}]
    /\ ret = [stage |-> "start", pack |-> <<>>, into |-> EmptyStore, error |-> Null]

PackCreate ==
    /\ ret.stage = "start"
    /\ ret' = [ret EXCEPT !.stage = "packed", !.pack = createPackfileOf(arg.store, arg.oids)]
    /\ UNCHANGED arg
    /\ RouterIdle

\* extraction into a new, empty store
PackExtract ==
    /\ ret.stage = "packed"
    /\ LET r == extractPackfile(EmptyStore, ret.pack)
       IN ret' = [ret EXCEPT !.stage = "extracted", !.into = r.store, !.error = r.error]
    /\ UNCHANGED arg
    /\ RouterIdle

NextPack == PackCreate \/ PackExtract

SpecPack == InitPack /\ [][NextPack]_vars

\* C22: extracting createPackfile(store, S) into a new empty store leaves exactly the
\* objects of S there, each with the type and content it had in the first store.
C22_PackRoundTrip ==
    ret.stage = "extracted" =>
        /\ ret.error = Null
        /\ DOMAIN ret.into = arg.oids
        /\ \A o \in arg.oids : ret.into[o] = arg.store[o]

\* a blob and a tree of the same content went through the pack, a third object of
\* the store stayed behind
C22_Witness ==
    /\ ret.stage = "extracted"
    /\ Cardinality(arg.oids) = 2
    /\ Cardinality(DOMAIN arg.store) = 3
    /\ {ret.into[o].type : o \in DOMAIN ret.into} = {"blob", "tree"}
    /\ \A o \in DOMAIN ret.into : ret.into[o].content = Str(<<"x">>)
    /\ ret.pack.count = 2

(* ------------------------ object store on its own --------------------- *)
\* store operations in one behaviour
MaxOps == 3

\* what can be wrong with an arriving pack
Damages == {"none", "magic", "version", "truncated", "checksum"}

\* a pack as it arrives: intact, or with one of the defects extractPackfile names
Damaged(pack, damage) ==
    CASE damage = "none" -> pack
      [] damage = "magic" -> [pack EXCEPT !.magic = Str(<<"J", "U", "N", "K">>)]
      [] damage = "version" -> [pack EXCEPT !.version = 3]
      [] damage = "truncated" ->
           [pack EXCEPT !.entries = SubSeq(pack.entries, 1, Len(pack.entries) - 1)]
      [] damage = "checksum" -> [pack EXCEPT !.checksum = <<"sha1", "other">>]

InitStore ==
    /\ RouterStart
    /\ arg = [ops |-> 0]
    /\ ret = [store |-> EmptyStore, op |-> "none", type |-> Null, content |-> <<>>,
              oid |-> <<>>, before |-> EmptyStore, error |-> Null]

StPut ==
    /\ arg.ops < MaxOps
    /\ \E obj \in SomeObjects :
         LET r == putObject(ret.store, obj.type, obj.content)
         IN ret' = [store |-> r.store, op |-> "put", type |-> obj.type,
                    content |-> obj.content, oid |-> r.oid, before |-> ret.store,
                    error |-> Null]
    /\ arg' = [ops |-> arg.ops + 1]
    /\ RouterIdle

\* receive-pack's write to the store: the pack of the request is extracted into it
StExtract ==
    /\ arg.ops < MaxOps
    /\ \E objs \in SUBSET SomeObjects : \E damage \in Damages :
         LET full == Filled(objs)
             pack == Damaged(createPackfileOf(full, DOMAIN full), damage)
             r == extractPackfile(ret.store, pack)
         IN /\ (damage = "truncated" => objs # {})
            /\ ret' = [store |-> r.store, op |-> "extract", type |-> Null, content |-> <<>>,
                       oid |-> <<>>, before |-> ret.store, error |-> r.error]
    /\ arg' = [ops |-> arg.ops + 1]
    /\ RouterIdle

\* upload-pack's use of the store: objects are looked up and packed, nothing is written
StRead ==
    /\ arg.ops < MaxOps
    /\ \E obj \in SomeObjects :
         LET oid == hashObject(obj.type, obj.content)
             found == getObject(ret.store, oid)
         IN ret' = [store |-> ret.store, op |-> "read", type |-> found.type,
                    content |-> found.content, oid |-> oid, before |-> ret.store,
                    error |-> Null]
    /\ arg' = [ops |-> arg.ops + 1]
    /\ RouterIdle

NextStore == StPut \/ StExtract \/ StRead

SpecStore == InitStore /\ [][NextStore]_vars

\* C23: whatever is put, extracted (also from a pack that fails part-way) or requested,
\* every oid that was in the store is still there with the same type and content.
C23_StoredObjectsNeverChange ==
    [][\A o \in DOMAIN ret.store :
          o \in DOMAIN ret'.store /\ ret'.store[o] = ret.store[o]]_vars

\* a pack that failed part-way added an object to a store that had one, which is
\* still there unchanged
C23_Witness ==
    /\ ret.op = "extract"
    /\ ret.error = "CorruptPackError"
    /\ ret.before # EmptyStore
    /\ DOMAIN ret.store # DOMAIN ret.before
    /\ \A o \in DOMAIN ret.before : o \in DOMAIN ret.store /\ ret.store[o] = ret.before[o]

\* the stores a put can meet
AnyStore == {Filled(objs) : objs \in SUBSET SomeObjects}

\* C24: getObject of the oid putObject returned gives the type and content put; the oid
\* is the same whatever the store held before; putting the same object again returns
\* the same oid and leaves the store as it is.
C24_PutIsIdempotentAndDerived ==
    ret.op = "put" =>
        /\ getObject(ret.store, ret.oid) = [type |-> ret.type, content |-> ret.content]
        /\ \A st \in AnyStore : putObject(st, ret.type, ret.content).oid = ret.oid
        /\ putObject(ret.store, ret.type, ret.content) = [store |-> ret.store, oid |-> ret.oid]

\* the object put was in the store already, next to another one, and the store is
\* as it was
C24_Witness ==
    /\ ret.op = "put"
    /\ ret.oid \in DOMAIN ret.before
    /\ Cardinality(DOMAIN ret.before) = 2
    /\ ret.store = ret.before
    /\ getObject(ret.store, ret.oid).content = ret.content

(* ------------------- getReachableObjects step by step ----------------- *)
\* links between objects in one graph
MaxEdges == 3

GraphOids == {"o1", "o2", "o3"}

\* faulty variant: no oid is ever taken for visited
Seen_never(o, visited) == FALSE

\* the visited set is asked before an oid is expanded
Seen(o, visited) == o \in visited

\* the oids an object links to (a commit's parents and tree, a tree's entries)
LinksOf(edges, o) == {e[2] : e \in {d \in edges : d[1] = o}}

\* any graph over the oids, cycles and self-links included; any part of it may be
\* missing from the store; any oid may be the start
InitReach ==
    /\ RouterStart
    /\ \E edges \in SUBSET (GraphOids \X GraphOids) :
         /\ Cardinality(edges) <= MaxEdges
         /\ \E present \in SUBSET GraphOids : \E startOid \in GraphOids :
              arg = [edges |-> edges, present |-> present, startOid |-> startOid]
    /\ ret = [work |-> {arg.startOid}, visited |-> {}, again |-> {}, done |-> FALSE]

\* one turn of the traversal loop (ReachFrom): an oid is taken off the worklist; if it
\* was visited or is missing from the store nothing follows from it, else it is
\* visited and what it links to joins the worklist
ReachStep ==
    /\ ~ret.done
    /\ \E o \in ret.work :
         IF Seen(o, ret.visited) \/ o \notin arg.present
         THEN ret' = [ret EXCEPT !.work = ret.work \ {o}]
         ELSE ret' = [ret EXCEPT !.work = (ret.work \ {o}) \cup LinksOf(arg.edges, o),
                                 !.visited = ret.visited \cup {o},
                                 !.again = IF o \in ret.visited THEN ret.again \cup {o}
                                           ELSE ret.again]
    /\ UNCHANGED arg
    /\ RouterIdle

\* the worklist is empty: the visited set is returned
ReachReturn ==
    /\ ~ret.done
    /\ ret.work = {}
    /\ ret' = [ret EXCEPT !.done = TRUE]
    /\ UNCHANGED arg
    /\ RouterIdle

NextReach == ReachStep \/ ReachReturn

\* the loop runs on until it returns
SpecReach == InitReach /\ [][NextReach]_vars /\ WF_vars(NextReach)

RECURSIVE Within(_, _, _, _)
\* the present oids reached from S over present oids in at most k links
Within(edges, present, S, k) ==
    IF k = 0 THEN S \cap present
    ELSE LET near == Within(edges, present, S, k - 1)
         IN near \cup (UNION {LinksOf(edges, o) : o \in near} \cap present)

\* C25: getReachableObjects returns for every graph, cyclic parents and missing oids
\* included; a missing oid is a dead end; no oid is visited twice; what is returned
\* is what can be reached from the start over objects of the store.
C25_ReachTerminatesVisitingOnce ==
    /\ [](ret.again = {} /\ ret.visited \subseteq arg.present)
    /\ <>ret.done
    /\ [](ret.done =>
            ret.visited = Within(arg.edges, arg.present, {arg.startOid}, Cardinality(GraphOids)))

\* returned from a graph with a cycle through the start and a link to a missing oid
C25_Witness ==
    /\ ret.done
    /\ arg.startOid = "o1"
    /\ arg.edges = {<<"o1", "o2">>, <<"o2", "o1">>, <<"o2", "o3">>}
    /\ arg.present = {"o1", "o2"}
    /\ ret.visited = {"o1", "o2"}

(* ------------------- tips and the objects they name ------------------- *)
\* C26: every existing branch tip is the oid of a commit present in the store, and no
\* pushBranch call succeeds with a newOid that is in the store neither from before nor
\* from the pack of its request. (A request whose pack is corrupt ends before any ref
\* is touched, so the tips are those set by requests with well-formed packs.)
C26_TipsAreStoredCommits ==
    /\ \A n \in DOMAIN branches : branches[n].tip \in Commits \cap store
    /\ \A i \in 1..Len(calls[W1]) : calls[W1][i].ok => calls[W1][i].newOid \in store

\* C27: a receive-pack request that ends without a status report leaves every branch
\* tip as the request found it.
C27_NoReportNoTipChanged ==
    (IsPush(W1) /\ Done(W1) /\ resp[W1].lines = <<>>) =>
        \A n \in DOMAIN branches \cup DOMAIN snap[W1].branches :
            /\ n \in DOMAIN branches /\ n \in DOMAIN snap[W1].branches
            /\ branches[n].tip = snap[W1].branches[n].tip

(* ---------------------- the pushes of one branch ---------------------- *)
\* the successful pushes of branch n form a chain that starts with a create
Chained(log) ==
    /\ Len(log) >= 1
    /\ log[1].expectedOldOid = Null
    /\ \A i \in 2..Len(log) : log[i].expectedOldOid = log[i - 1].newOid

\* C28: a branch exists exactly when a push of it succeeded, its tip is the newOid of
\* the last successful push, and the successful pushes of each branch form a chain:
\* the first carried the create sentinel, every later one carried as expectedOldOid
\* the newOid of the one before it.
C28_PushesFormAChain ==
    /\ DOMAIN branches = DOMAIN pushLog
    /\ \A n \in DOMAIN pushLog :
          /\ Chained(pushLog[n])
          /\ branches[n].tip = pushLog[n][Len(pushLog[n])].newOid

\* main was created and then pushed twice, by different workers, the second push
\* moving it to another commit
C28_Witness ==
    /\ <<"main">> \in DOMAIN pushLog
    /\ Len(pushLog[<<"main">>]) = 3
    /\ pushLog[<<"main">>][3].newOid # pushLog[<<"main">>][2].newOid
    /\ \E i \in 1..Len(calls["w1"]) : calls["w1"][i].ok
    /\ \E i \in 1..Len(calls["w2"]) : calls["w2"][i].ok
    /\ Chained(pushLog[<<"main">>])

(* ------------------ receive-pack body, byte by byte ------------------- *)
\* buffer.indexOf(pattern): the first offset where pattern occurs, or -1
IndexOf(buffer, pattern) ==
    LET at == {i \in 0..(ByteLen(buffer) - ByteLen(pattern)) :
                  Take(Drop(buffer, i), ByteLen(pattern)) = pattern}
    IN IF at = {} THEN -1 ELSE CHOOSE i \in at : \A j \in at : i <= j

\* buffer.subarray(start, end): a negative index counts from the end, and all are
\* clamped to the buffer
subarray(buffer, start, end) ==
    LET n == ByteLen(buffer)
        FromEnd(i) == IF i < 0 THEN n + i ELSE i
        Clamped(i) == IF FromEnd(i) < 0 THEN 0 ELSE IF FromEnd(i) > n THEN n ELSE FromEnd(i)
        s == Clamped(start)
        e == Clamped(end)
    IN IF e <= s THEN <<>> ELSE Take(Drop(buffer, s), e - s)

\* lines 218-220: the body is cut at the first occurrence of 'PACK'
SplitBody(buffer) ==
    LET packStart == IndexOf(buffer, PackMagic)
    IN [commandData |-> subarray(buffer, 0, packStart),
        packData |-> subarray(buffer, packStart, ByteLen(buffer))]

NUL == <<Run("NUL", 1)>>
Space == <<Run(" ", 1)>>

\* match[3].split('\0')[0]
BeforeNul(bytes) ==
    LET at == IndexOf(bytes, NUL)
    IN IF at = -1 THEN bytes ELSE Take(bytes, at)

\* line 227: /^([0-9a-f]{40}) ([0-9a-f]{40}) (.+)$/
MatchesCommand(line) ==
    LET AllHex(bytes) == \A i \in 1..Len(bytes) : IsHex(bytes[i].ch)
    IN /\ ByteLen(line) >= 83
       /\ AllHex(Take(line, 40))
       /\ Take(Drop(line, 40), 1) = Space
       /\ AllHex(Take(Drop(line, 41), 40))
       /\ Take(Drop(line, 81), 1) = Space

RECURSIVE ParseCommandBytes(_)
\* lines 225-231 on the payloads parsePktLines returned
ParseCommandBytes(lines) ==
    IF lines = <<>> THEN <<>>
    ELSE (IF MatchesCommand(Head(lines))
          THEN <<[oldOid |-> Take(Head(lines), 40),
                  newOid |-> Take(Drop(Head(lines), 41), 40),
                  refName |-> BeforeNul(Drop(Head(lines), 82))]>>
          ELSE <<>>) \o ParseCommandBytes(Tail(lines))

RefsHeads == Str(<<"r", "e", "f", "s", "/", "h", "e", "a", "d", "s", "/">>)
\* refs/heads/main, refs/heads/PACKAGES, refs/heads/UNPACK-fix
SplitRefs ==
    {Cat(RefsHeads, Str(<<"m", "a", "i", "n">>)),
     Cat(RefsHeads, Str(<<"P", "A", "C", "K", "A", "G", "E", "S">>)),
     Cat(RefsHeads, Str(<<"U", "N", "P", "A", "C", "K", "-", "f", "i", "x">>))}

\* the commands a client may send: a create or a delete of one of the refs
SplitCommands ==
    {[oldOid |-> OidBytes(ZeroOid), newOid |-> OidBytes("c0"), refName |-> r] : r \in SplitRefs}
    \cup {[oldOid |-> OidBytes("c0"), newOid |-> OidBytes(ZeroOid), refName |-> r] : r \in SplitRefs}

ClientCaps == Str(<<"r", "e", "p", "o", "r", "t", "-", "s", "t", "a", "t", "u", "s">>)

\* the command section as the client writes it: one pkt-line per command, the
\* capabilities after a NUL on the first, and a flush-pkt when the client ends the
\* section with one
CommandSection(cmds, flush) ==
    Cat(CatAll([i \in 1..Len(cmds) |->
                   createPktLine(
                       Cat(Cat(Cat(Cat(cmds[i].oldOid, Space), cmds[i].newOid), Space),
                           IF i = 1 THEN Cat(Cat(cmds[i].refName, NUL), ClientCaps)
                           ELSE cmds[i].refName))]),
        IF flush THEN createFlushPkt ELSE <<>>)

\* the packfile section: the marker, version 2, an object count, object data and a
\* trailer; absent when the push carries no objects
PackSection(present) ==
    IF present
    THEN Cat(PackMagic, <<Run("\\0", 3), Run("\\2", 1), Run("\\0", 4), Run("sha1", 20)>>)
    ELSE <<>>

InitSplit ==
    /\ RouterStart
    /\ \E n \in 0..MaxCmds : \E cmds \in [1..n -> SplitCommands] :
         \E flush \in BOOLEAN : \E withPack \in BOOLEAN :
            arg = [cmds |-> cmds, flush |-> flush, withPack |-> withPack]
    /\ ret = [stage |-> "start", commandData |-> <<>>, packData |-> <<>>, updates |-> <<>>]

\* lines 217-220
RpSplit ==
    /\ ret.stage = "start"
    /\ LET parts == SplitBody(Cat(CommandSection(arg.cmds, arg.flush),
                                  PackSection(arg.withPack)))
       IN ret' = [ret EXCEPT !.stage = "split", !.commandData = parts.commandData,
                             !.packData = parts.packData]
    /\ UNCHANGED arg
    /\ RouterIdle

\* lines 222-231
RpParse ==
    /\ ret.stage = "split"
    /\ ret' = [ret EXCEPT !.stage = "parsed",
                          !.updates = ParseCommandBytes(parsePktLines(ret.commandData))]
    /\ UNCHANGED arg
    /\ RouterIdle

NextSplit == RpSplit \/ RpParse

SpecSplit == InitSplit /\ [][NextSplit]_vars

\* C29: the bytes handed to the command parser are the command section, the bytes
\* handed to extractPackfile are the packfile section, and every command is parsed
\* in full, whatever the ref names and whether or not a packfile section follows.
C29_SplitAtPackSection ==
    /\ ret.stage # "start" =>
          /\ ret.commandData = CommandSection(arg.cmds, arg.flush)
          /\ ret.packData = PackSection(arg.withPack)
    /\ ret.stage = "parsed" => ret.updates = arg.cmds

\* the same for bodies where the marker occurs in the packfile section only: the
\* split is right there
SplitIsRightWhenMarkerIsThePack ==
    (/\ ret.stage # "start"
     /\ arg.withPack
     /\ \A i \in 1..Len(arg.cmds) : IndexOf(arg.cmds[i].refName, PackMagic) = -1)
        => /\ ret.commandData = CommandSection(arg.cmds, arg.flush)
           /\ ret.packData = PackSection(arg.withPack)
           /\ (ret.stage = "parsed" => ret.updates = arg.cmds)

(* ------------------- upload-pack body, byte by byte ------------------- *)
\* line.startsWith(prefix)
StartsWith(line, prefix) == Take(line, ByteLen(prefix)) = prefix

\* line.split(' ')[1] of a line that has a space
SecondWord(line) ==
    LET rest == Drop(line, IndexOf(line, Space) + 1)
        stop == IndexOf(rest, Space)
    IN IF stop = -1 THEN rest ELSE Take(rest, stop)

WantWord == Str(<<"w", "a", "n", "t", " ">>)
HaveWord == Str(<<"h", "a", "v", "e", " ">>)

RECURSIVE WordsAfter(_, _)
\* lines 173-176: the oids of the lines that start with the word
WordsAfter(word, lines) ==
    IF lines = <<>> THEN <<>>
    ELSE (IF StartsWith(Head(lines), word) THEN <<SecondWord(Head(lines))>> ELSE <<>>)
         \o WordsAfter(word, Tail(lines))

\* lines 170-176; have is looked for only in lines that are no want
ParseNegotiation(lines) ==
    [wants |-> WordsAfter(WantWord, lines),
     haves |-> WordsAfter(HaveWord, SelectSeq(lines, LAMBDA l : ~StartsWith(l, WantWord)))]

\* the body of a fetch: the want lines (capabilities on the first), a flush-pkt when
\* the client separates the sections with one, the have lines, and done
NegotiationBody(wantOids, haveOids, flush) ==
    Cat(Cat(Cat(CatAll([i \in 1..Len(wantOids) |->
                           createPktLine(
                               Cat(Cat(WantWord, OidBytes(wantOids[i])),
                                   IF i = 1 THEN Cat(Space, ClientCaps) ELSE <<>>))]),
                IF flush THEN createFlushPkt ELSE <<>>),
            CatAll([i \in 1..Len(haveOids) |->
                       createPktLine(Cat(HaveWord, OidBytes(haveOids[i])))])),
        createPktLine(Str(<<"d", "o", "n", "e">>)))

InitHave ==
    /\ RouterStart
    /\ \E nw \in 0..MaxWants : \E nh \in 0..MaxHaves :
         \E ws \in [1..nw -> Commits] : \E hs \in [1..nh -> Commits] :
            \E flush \in BOOLEAN :
               arg = [wants |-> ws, haves |-> hs, flush |-> flush]
    /\ ret = [stage |-> "start", lines |-> <<>>, wants |-> <<>>, haves |-> <<>>]

\* lines 167-168
UpRead ==
    /\ ret.stage = "start"
    /\ ret' = [ret EXCEPT !.stage = "read",
                          !.lines = parsePktLines(NegotiationBody(arg.wants, arg.haves,
                                                                  arg.flush))]
    /\ UNCHANGED arg
    /\ RouterIdle

\* lines 170-176
UpSort ==
    /\ ret.stage = "read"
    /\ LET n == ParseNegotiation(ret.lines)
       IN ret' = [ret EXCEPT !.stage = "sorted", !.wants = n.wants, !.haves = n.haves]
    /\ UNCHANGED arg
    /\ RouterIdle

NextHave == UpRead \/ UpSort

SpecHave == InitHave /\ [][NextHave]_vars

\* C30: every have line of the body is in the have set, also when the have lines
\* follow a flush-pkt that closes the want section.
C30_EveryHaveIsSubtracted ==
    ret.stage = "sorted" =>
        \A i \in 1..Len(arg.haves) :
            \E j \in 1..Len(ret.haves) : ret.haves[j] = OidBytes(arg.haves[i])

\* without a flush-pkt between the sections every want and every have is found
NegotiationReadWithoutFlush ==
    (ret.stage = "sorted" /\ ~arg.flush) =>
        /\ ret.wants = [i \in 1..Len(arg.wants) |-> OidBytes(arg.wants[i])]
        /\ ret.haves = [i \in 1..Len(arg.haves) |-> OidBytes(arg.haves[i])]

====
